---- MODULE Spec2Model ----
(***************************************************************************)
(* A model of the random-word supply (WordSupply) and of the background    *)
(* pre-fetch pool (ResultPool) of src/rexlibris.py, with the threads that  *)
(* drive them: the consumer (CLI loop / HTTP handler), the fill threads,   *)
(* the executor's fetch tasks and the word-refill threads.                 *)
(*                                                                         *)
(* Granularity: a `with self._lock:` block is one step; every access to a  *)
(* shared attribute outside a lock (the two _filling flags, _config,       *)
(* _type) is a step of its own, except the test of _maybe_refill, which is *)
(* read as the lock section before it ends.  A blocking network call is a  *)
(* position of its thread; the value it returns is drawn when the thread   *)
(* next acts.                                                              *)
(***************************************************************************)
EXTENDS Integers, Sequences, FiniteSets, Bags, TLC

VARIABLES
    net,         \* which remote services answer: [search, words]
    w_lock,      \* WordSupply._lock: who holds it, or None
    p_lock,      \* ResultPool._lock: who holds it, or None
    w_words,     \* WordSupply._words
    w_used,      \* WordSupply._used
    w_filling,   \* WordSupply._filling
    refills,     \* running _fill_bg threads, counted by position
    primer,      \* position of the thread that calls prime()
    p_config,    \* ResultPool._config
    p_type,      \* ResultPool._type
    p_items,     \* ResultPool._items
    p_seen,      \* ResultPool._seen
    p_filling,   \* ResultPool._filling
    p_target,    \* ResultPool._target
    fills,       \* running _fill calls (a bag), each with its fetch tasks
    cons,        \* the consumer threads: position and locals
    dup          \* history: an id a merge was handed while the pool held it already

vars == <<net, w_lock, p_lock, w_words, w_used, w_filling, refills, primer,
          p_config, p_type, p_items, p_seen, p_filling, p_target, fills, cons, dup>>

supplyVars == <<w_words, w_used, w_filling, refills>>
poolVars == <<p_config, p_type, p_items, p_seen, p_filling>>

(***************************************************************************)
(* Bounds of the model.                                                    *)
(***************************************************************************)
NumIds == 2          \* distinct record identifiers the catalogue returns
MaxDocs == 2         \* records in one search response
MaxBatch == 2        \* words in one response of the word service
MaxWords == 2        \* cap on len(_words)
MaxRefills == 2      \* cap on concurrently running _fill_bg threads
MaxFills == 2        \* cap on concurrently running _fill calls
MaxManyFills == 3    \* the same cap where a third fill is let in
MaxTake == 5         \* largest n passed to take / ensure_available
FallbackLen == 2     \* length of the prefix of _FALLBACK that is modelled
Target == 2          \* ResultPool(target=...)
LowWater == 1        \* ResultPool(low_water=...)
Workers == 2         \* ResultPool(workers=...)
LOW == 1             \* WordSupply._LOW, scaled down from 20
MaxHeld == 3         \* records held by the pool that SpecTake starts from
MaxNeg == 1          \* take is called with n down to -MaxNeg in SpecTakeAny

DefaultTarget == 150 \* ResultPool(target=150)
Limit == 50          \* _fetch_batch(limit=50)
MinBatches == 3      \* max(3, ...) in _fill
BatchDiv == 20       \* ... // 20 in _fill
MinWordLen == 3
MaxWordLen == 12

None == "None"
Min(a, b) == IF a < b THEN a ELSE b
Max(a, b) == IF a > b THEN a ELSE b

(***************************************************************************)
(* Words are sequences of characters.                                      *)
(***************************************************************************)
LowerCase == <<"a","b","c","d","e","f","g","h","i","j","k","l","m",
               "n","o","p","q","r","s","t","u","v","w","x","y","z">>
UpperCase == <<"A","B","C","D","E","F","G","H","I","J","K","L","M",
               "N","O","P","Q","R","S","T","U","V","W","X","Y","Z">>
Range(s) == {s[i] : i \in DOMAIN s}
Letters == Range(LowerCase) \cup Range(UpperCase)

\* str.isalpha(): non-empty and every character a letter
IsAlpha(w) == w # <<>> /\ \A i \in DOMAIN w : w[i] \in Letters

LowerChar(c) ==
    IF c \in Range(UpperCase)
    THEN LowerCase[CHOOSE i \in DOMAIN UpperCase : UpperCase[i] = c]
    ELSE c

\* str.lower()
Lower(w) == [i \in DOMAIN w |-> LowerChar(w[i])]

\* a sub-list, in source order, of WordSupply._FALLBACK
FallbackWords == << <<"w","o","r","l","d">>, <<"h","u","m","a","n">>,
                    <<"m","u","s","i","c">>, <<"a","r","t">> >>
FALLBACK == SubSeq(FallbackWords, 1, FallbackLen)

\* what the word service may send: a capitalised word that is also a
\* fallback word, a plain word, a word that is too short, a non-word and
\* the empty string
RawWords == { <<"W","o","r","l","d">>, <<"o","a","k">>, <<"n","o">>, <<"a","1","c">>, <<>> }

RECURSIVE SeqsUpTo(_, _)
SeqsUpTo(S, n) ==
    IF n = 0 THEN {<<>>}
    ELSE LET shorter == SeqsUpTo(S, n - 1)
         IN  shorter \cup {Append(s, x) : s \in shorter, x \in S}

\* the comprehension of WordSupply._fetch
KeepWord(w) == IsAlpha(w) /\ MinWordLen <= Len(w) /\ Len(w) <= MaxWordLen
FilterWords(raw) ==
    LET kept == SelectSeq(raw, KeepWord)
    IN  [i \in DOMAIN kept |-> Lower(kept[i])]

\* A _fetch that hands the text of its error to the caller as a word.
FetchWordsErrorText(up) ==
    IF up THEN {FilterWords(raw) : raw \in SeqsUpTo(RawWords, MaxBatch)} \cup {<<>>}
    ELSE {<< <<"e","r","r","o","r">> >>}

\* WordSupply._fetch: the filtered batch, or [] on any failure
WordBatches == {FilterWords(raw) : raw \in SeqsUpTo(RawWords, MaxBatch)}
FetchWords(up) == IF up THEN WordBatches \cup {<<>>} ELSE {<<>>}

Swap(s, i, j) == [s EXCEPT ![i] = s[j], ![j] = s[i]]
Pop(s) == SubSeq(s, 1, Len(s) - 1)

\* A get that waits for the refill when the buffer is empty instead of
\* falling back to _FALLBACK.
GetWaitsForRefill(ws, us) ==
    IF ws # <<>>
    THEN { LET sw == Swap(ws, idx, Len(ws))
           IN  [word |-> sw[Len(sw)], words |-> Pop(sw), used |-> us \cup {sw[Len(sw)]}]
           : idx \in 1..Len(ws) }
    ELSE {}

\* A get that removes every occurrence of the word it returns.
GetRemovesAll(ws, us) ==
    IF ws # <<>>
    THEN { [word |-> ws[idx], words |-> SelectSeq(ws, LAMBDA w : w # ws[idx]),
            used |-> us \cup {ws[idx]}]
           : idx \in 1..Len(ws) }
    ELSE LET unused == SelectSeq(FALLBACK, LAMBDA w : w \notin us)
             available == IF unused = <<>> THEN FALLBACK ELSE unused
             base == IF unused = <<>> THEN {} ELSE us
         IN  { [word |-> available[k], words |-> ws, used |-> base \cup {available[k]}]
               : k \in DOMAIN available }

\* A get that never clears the used set.
GetKeepsUsed(ws, us) ==
    IF ws # <<>>
    THEN { LET sw == Swap(ws, idx, Len(ws))
           IN  [word |-> sw[Len(sw)], words |-> Pop(sw), used |-> us \cup {sw[Len(sw)]}]
           : idx \in 1..Len(ws) }
    ELSE LET unused == SelectSeq(FALLBACK, LAMBDA w : w \notin us)
             available == IF unused = <<>> THEN FALLBACK ELSE unused
         IN  { [word |-> available[k], words |-> ws, used |-> us \cup {available[k]}]
               : k \in DOMAIN available }

\* A get that takes the first fallback word that is not used.
GetFirstFallback(ws, us) ==
    IF ws # <<>>
    THEN { LET sw == Swap(ws, idx, Len(ws))
           IN  [word |-> sw[Len(sw)], words |-> Pop(sw), used |-> us \cup {sw[Len(sw)]}]
           : idx \in 1..Len(ws) }
    ELSE LET unused == SelectSeq(FALLBACK, LAMBDA w : w \notin us)
             available == IF unused = <<>> THEN FALLBACK ELSE unused
             base == IF unused = <<>> THEN {} ELSE us
         IN  { [word |-> available[1], words |-> ws, used |-> base \cup {available[1]}] }

\* the lock section of WordSupply.get: the word returned, and the new
\* _words and _used, for every draw of random
GetOutcomes(ws, us) ==
    IF ws # <<>>
    THEN { LET sw == Swap(ws, idx, Len(ws))
           IN  [word |-> sw[Len(sw)], words |-> Pop(sw), used |-> us \cup {sw[Len(sw)]}]
           : idx \in 1..Len(ws) }
    ELSE LET unused == SelectSeq(FALLBACK, LAMBDA w : w \notin us)
             available == IF unused = <<>> THEN FALLBACK ELSE unused
             base == IF unused = <<>> THEN {} ELSE us
         IN  { [word |-> available[k], words |-> ws, used |-> base \cup {available[k]}]
               : k \in DOMAIN available }

\* A refill that appends its whole batch.
AppendAll(ws, us, new) == ws \o new

\* the loop of WordSupply._fill_bg
RECURSIVE AppendUnused(_, _, _)
AppendUnused(ws, us, new) ==
    IF new = <<>> THEN ws
    ELSE AppendUnused(IF Head(new) \notin us THEN Append(ws, Head(new)) ELSE ws,
                      us, Tail(new))

(***************************************************************************)
(* Records.  A record carries its identifier list (pnx.control.recordid)   *)
(* and, as provenance, the configuration and material type of the search   *)
(* that returned it.                                                       *)
(***************************************************************************)
IdNames == <<"rec1", "rec2", "rec3", "rec4", "rec5">>
Ids == {IdNames[i] : i \in 1..NumIds}
Configs == {"libA", "libB"}
Types == {None, "book"}
Consumers == {"c1", "c2"}
MainThread == {"c1"}

Doc(rid, cfg, typ) == [recordid |-> rid, cfg |-> cfg, typ |-> typ]
\* a doc of another shape than a record, such as {"pnx": null}
BadDoc(cfg, typ) == [pnx |-> None, cfg |-> cfg, typ |-> typ]

\* _do_search through _fetch_batch: the docs of the response, [] on failure.
\* A catalogue that answers returns records with or without an identifier,
\* and, if it is one whose JSON may have another shape, docs that are no
\* records.
SearchResults(nt, cfg, typ) ==
    IF nt.search
    THEN LET one == {Doc(<<i>>, cfg, typ) : i \in Ids} \cup {Doc(<<>>, cfg, typ)}
                    \cup (IF nt.bad THEN {BadDoc(cfg, typ)} ELSE {})
         IN  SeqsUpTo(one, MaxDocs)
    ELSE {<<>>}

\* the exception of doc.get("pnx", {}).get(...) on a doc that is no record
Raise == "AttributeError"
_record_id(doc) ==
    IF "recordid" \notin DOMAIN doc THEN Raise
    ELSE IF doc.recordid # <<>> THEN doc.recordid[1] ELSE None

IdsOf(its) == {_record_id(its[i]) : i \in DOMAIN its}

\* An _add_docs that appends every record that has an identifier, without
\* looking it up in _seen.
RECURSIVE AddDocsUnchecked(_, _, _)
AddDocsUnchecked(its, sn, docs) ==
    IF docs = <<>> THEN [items |-> its, seen |-> sn, raised |-> FALSE]
    ELSE LET d == Head(docs)
             rid == _record_id(d)
         IN  IF rid = Raise THEN [items |-> its, seen |-> sn, raised |-> TRUE]
             ELSE IF rid # None
             THEN AddDocsUnchecked(Append(its, d), sn \cup {rid}, Tail(docs))
             ELSE AddDocsUnchecked(its, sn, Tail(docs))

\* ResultPool._add_docs: the loop under the lock, left by the exception of
\* _record_id if there is one
RECURSIVE _add_docs(_, _, _)
_add_docs(its, sn, docs) ==
    IF docs = <<>> THEN [items |-> its, seen |-> sn, raised |-> FALSE]
    ELSE LET d == Head(docs)
             rid == _record_id(d)
         IN  IF rid = Raise THEN [items |-> its, seen |-> sn, raised |-> TRUE]
             ELSE IF rid # None /\ rid \notin sn
             THEN _add_docs(Append(its, d), sn \cup {rid}, Tail(docs))
             ELSE _add_docs(its, sn, Tail(docs))

\* A take that returns the record at the index drawn but pops the last one,
\* the swap forgotten.
RECURSIVE TakeLoopNoSwap(_, _, _)
TakeLoopNoSwap(its, picked, k) ==
    IF k <= 0 \/ its = <<>> THEN {[items |-> its, picked |-> picked]}
    ELSE UNION { TakeLoopNoSwap(Pop(its), Append(picked, its[idx]), k - 1)
                 : idx \in 1..Len(its) }
TakeNoSwap(its, n) == TakeLoopNoSwap(its, <<>>, Min(n, Len(its)))

\* ResultPool.take: the loop under the lock, for every draw of random
RECURSIVE TakeLoop(_, _, _)
TakeLoop(its, picked, k) ==
    IF k <= 0 \/ its = <<>> THEN {[items |-> its, picked |-> picked]}
    ELSE UNION { TakeLoop(Pop(Swap(its, idx, Len(its))), Append(picked, its[idx]), k - 1)
                 : idx \in 1..Len(its) }

take(its, n) == TakeLoop(its, <<>>, Min(n, Len(its)))

\* A number of batches that takes the smaller of the two.
BatchesMin(target, size) == Min(MinBatches, (target - size) \div BatchDiv)

\* A number of batches without its lower bound of three.
BatchesNoFloor(target, size) == (target - size) \div BatchDiv

\* batches in ResultPool._fill
Batches(target, size) == Max(MinBatches, (target - size) \div BatchDiv)

(***************************************************************************)
(* Bags of threads.                                                        *)
(***************************************************************************)
BAdd(B, x) == B (+) SetToBag({x})
BDel(B, x) == B (-) SetToBag({x})
BReplace(B, x, y) == BAdd(BDel(B, x), y)

Task(pc, cfg, typ) == [pc |-> pc, cfg |-> cfg, typ |-> typ]
Fill(owner, pc, left, tasks) == [owner |-> owner, pc |-> pc, left |-> left, tasks |-> tasks]

RECURSIVE Copies(_, _)
Copies(B, S) == IF S = {} THEN 0
                ELSE LET x == CHOOSE y \in S : TRUE
                     IN  CopiesIn(x, B) + Copies(B, S \ {x})

RunningPcs == {"get", "mr_set", "search"}
\* fetch tasks of f that occupy a worker thread of its executor
Running(f) == Copies(f.tasks, {t \in BagToSet(f.tasks) : t.pc \in RunningPcs})

NumRefills == refills.fetch + refills.fin
BgFills == Copies(fills, {f \in BagToSet(fills) : f.owner = "bg"})

SetTask(f, t, t2) ==
    fills' = BReplace(fills, f, [f EXCEPT !.tasks = BReplace(f.tasks, t, t2)])

Idle == [pc |-> "idle", n |-> 0, got |-> <<>>]

(***************************************************************************)
(* Initial states.                                                         *)
(***************************************************************************)
\* a fresh WordSupply()
SupplyFresh ==
    /\ w_lock = None
    /\ w_words = <<>>
    /\ w_used = {}
    /\ w_filling = FALSE
    /\ refills = [fetch |-> 0, fin |-> 0]
    /\ primer = "idle"

\* The supply after the start-up of the CLI and of the web server: prime()
\* got nothing from the word service and has returned, and the refill it
\* started is still waiting for its answer.
SupplyPrimed ==
    /\ w_lock = None
    /\ w_words = <<>>
    /\ w_used = {}
    /\ w_filling = TRUE
    /\ refills = [fetch |-> 1, fin |-> 0]
    /\ primer = "done"

\* an empty pool with no fill in flight, and its callers outside the pool
PoolEmpty ==
    /\ p_lock = None
    /\ p_config = "libA"
    /\ p_type = None
    /\ p_items = <<>>
    /\ p_seen = {}
    /\ p_filling = FALSE
    /\ fills = EmptyBag
    /\ cons = [c \in Consumers |-> Idle]
    /\ dup = None

\* a fresh ResultPool(config, target=Target)
PoolFresh == PoolEmpty /\ p_target = Target

\* the catalogue answers, the word service does not
Init == net = [search |-> TRUE, words |-> FALSE, bad |-> FALSE] /\ SupplyPrimed /\ PoolFresh
\* the word service answers, the catalogue does not
InitSupply == net = [search |-> FALSE, words |-> TRUE, bad |-> FALSE] /\ SupplyFresh /\ PoolFresh
\* a fresh ResultPool(config) with the default target, and a catalogue
\* that answers every search with a full page
InitOvershoot ==
    /\ net = [search |-> TRUE, words |-> FALSE, bad |-> FALSE]
    /\ SupplyPrimed
    /\ PoolEmpty
    /\ p_target = DefaultTarget

\* the catalogue answers, now and then with docs that are no records
InitMalformed ==
    net = [search |-> TRUE, words |-> FALSE, bad |-> TRUE] /\ SupplyPrimed /\ PoolFresh

\* Neither remote service answers, prime() has not run yet, and the
\* buffer is empty or holds one word that an earlier refill has left.
InitSupplyDown ==
    /\ net = [search |-> FALSE, words |-> FALSE, bad |-> FALSE]
    /\ w_lock = None
    /\ w_words \in {<<>>, << <<"o","a","k">> >>}
    /\ w_used = {}
    /\ w_filling = FALSE
    /\ refills = [fetch |-> 0, fin |-> 0]
    /\ primer = "idle"
    /\ PoolFresh

\* both remote services answer
InitBothUp ==
    net = [search |-> TRUE, words |-> TRUE, bad |-> FALSE] /\ SupplyPrimed /\ PoolFresh

\* Both remote services answer, and the fill_async of the start-up has set
\* the flag and started its fill.  The refill that prime() has started is
\* counted with the position "got" that the step-by-step actions use.
InitLocks ==
    /\ net = [search |-> TRUE, words |-> TRUE, bad |-> FALSE]
    /\ w_lock = None
    /\ w_words = <<>>
    /\ w_used = {}
    /\ w_filling = TRUE
    /\ refills = [fetch |-> 1, got |-> 0, fin |-> 0]
    /\ primer = "done"
    /\ p_lock = None
    /\ p_config = "libA"
    /\ p_type = None
    /\ p_items = <<>>
    /\ p_seen = {}
    /\ p_filling = TRUE
    /\ p_target = Target
    /\ fills = SetToBag({Fill("bg", "size", 0, EmptyBag)})
    /\ cons = [c \in Consumers |-> Idle]
    /\ dup = None

\* The catalogue answers, and the fill_async of the start-up has set the
\* flag and started its fill.
InitConserve ==
    /\ net = [search |-> TRUE, words |-> FALSE, bad |-> FALSE]
    /\ SupplyPrimed
    /\ p_lock = None
    /\ p_config = "libA"
    /\ p_type = None
    /\ p_items = <<>>
    /\ p_seen = {}
    /\ p_filling = TRUE
    /\ p_target = Target
    /\ fills = SetToBag({Fill("bg", "size", 0, EmptyBag)})
    /\ cons = [c \in Consumers |-> Idle]
    /\ dup = None

\* neither remote service answers
InitDown == net = [search |-> FALSE, words |-> FALSE, bad |-> FALSE] /\ SupplyPrimed /\ PoolFresh

\* sequences over S without repetition, of length at most n
RECURSIVE DistinctSeqs(_, _)
DistinctSeqs(S, n) ==
    IF n = 0 THEN {<<>>}
    ELSE LET shorter == DistinctSeqs(S, n - 1)
         IN  shorter \cup UNION { {Append(sq, x) : x \in S \ Range(sq)} : sq \in shorter }

\* A pool between fills that holds up to MaxHeld records: what _add_docs
\* leaves (records with distinct identifiers, all of them in _seen) after
\* any number of takes (identifiers in _seen that are no longer held).
HeldIds == {IdNames[i] : i \in 1..MaxHeld}
InitHolding ==
    /\ net = [search |-> TRUE, words |-> FALSE, bad |-> FALSE]
    /\ SupplyPrimed
    /\ p_lock = None
    /\ p_config = "libA"
    /\ p_type = None
    /\ \E ids \in DistinctSeqs(HeldIds, MaxHeld) :
          p_items = [i \in DOMAIN ids |-> Doc(<<ids[i]>>, "libA", None)]
    /\ p_seen \in {S \in SUBSET HeldIds : IdsOf(p_items) \subseteq S}
    /\ p_filling = FALSE
    /\ p_target = Target
    /\ fills = EmptyBag
    /\ cons = [c \in Consumers |-> Idle]
    /\ dup = None

(***************************************************************************)
(* The word supply.  _maybe_refill is run by a fetch task (in get) or by   *)
(* the prime() thread: its test is taken when the lock section before it   *)
(* ends, and setting the flag and starting _fill_bg is a later step.       *)
(***************************************************************************)
StartRefill ==
    /\ NumRefills < MaxRefills
    /\ w_filling' = TRUE
    /\ refills' = [refills EXCEPT !.fetch = @ + 1]
    /\ UNCHANGED <<w_words, w_used>>

\* WordSupply._fill_bg up to the end of its try block
RefillFetch ==
    /\ refills.fetch > 0
    /\ \E new \in FetchWords(net.words) :
          /\ w_words' = IF new # <<>> THEN AppendUnused(w_words, w_used, new) ELSE w_words
          /\ Len(w_words') <= MaxWords
    /\ refills' = [fetch |-> refills.fetch - 1, fin |-> refills.fin + 1]
    /\ UNCHANGED <<net, p_target, w_lock, p_lock, w_used, w_filling, primer, poolVars, fills, cons, dup>>

\* A _fill_bg that ends without its finally clause.
RefillFinishKeepsFlag ==
    /\ refills.fin > 0
    /\ w_filling' = w_filling
    /\ refills' = [refills EXCEPT !.fin = @ - 1]
    /\ UNCHANGED <<net, p_target, w_lock, p_lock, w_words, w_used, primer, poolVars, fills, cons, dup>>

\* WordSupply._fill_bg: finally
RefillFinish ==
    /\ refills.fin > 0
    /\ w_filling' = FALSE
    /\ refills' = [refills EXCEPT !.fin = @ - 1]
    /\ UNCHANGED <<net, p_target, w_lock, p_lock, w_words, w_used, primer, poolVars, fills, cons, dup>>

\* WordSupply.prime: the fetch, the extend under the lock, and the test
\* of _maybe_refill
Prime ==
    /\ primer = "idle"
    /\ \E new \in FetchWords(net.words) :
          /\ w_words' = w_words \o new
          /\ Len(w_words') <= MaxWords
    /\ primer' = IF ~w_filling /\ Len(w_words') < LOW THEN "mr_set" ELSE "done"
    /\ UNCHANGED <<net, p_target, w_lock, p_lock, w_used, w_filling, refills, poolVars, fills, cons, dup>>

\* prime, in _maybe_refill: self._filling = True and the thread is started
PrimeRefillStart ==
    /\ primer = "mr_set"
    /\ StartRefill
    /\ primer' = "done"
    /\ UNCHANGED <<net, p_target, w_lock, p_lock, poolVars, fills, cons, dup>>

(***************************************************************************)
(* The fetch tasks of a fill: _fetch_batch run by an executor thread.      *)
(***************************************************************************)
\* A get whose _maybe_refill also passes when the buffer is at the mark.
TaskGetRefillsAtLow(f, t) ==
    /\ t.pc = "get"
    /\ \E o \in GetOutcomes(w_words, w_used) :
          /\ w_words' = o.words
          /\ w_used' = o.used
    /\ SetTask(f, t, [t EXCEPT !.pc = IF ~w_filling /\ Len(w_words') <= LOW
                                      THEN "mr_set" ELSE "search"])
    /\ UNCHANGED <<net, p_target, w_lock, p_lock, w_filling, refills, primer, poolVars, cons, dup>>

\* _word_supply.get(): the lock section and the test of _maybe_refill
TaskGet(f, t) ==
    /\ t.pc = "get"
    /\ \E o \in GetOutcomes(w_words, w_used) :
          /\ w_words' = o.words
          /\ w_used' = o.used
    /\ SetTask(f, t, [t EXCEPT !.pc = IF ~w_filling /\ Len(w_words') < LOW
                                      THEN "mr_set" ELSE "search"])
    /\ UNCHANGED <<net, p_target, w_lock, p_lock, w_filling, refills, primer, poolVars, cons, dup>>

\* get, in _maybe_refill: self._filling = True and the thread is started
TaskRefillStart(f, t) ==
    /\ t.pc = "mr_set"
    /\ StartRefill
    /\ SetTask(f, t, [t EXCEPT !.pc = "search"])
    /\ UNCHANGED <<net, p_target, w_lock, p_lock, primer, poolVars, cons, dup>>

\* the search request returns and the future completes; the worker thread
\* takes the next queued future, if any
TaskSearch(f, t) ==
    /\ t.pc = "search"
    /\ LET rest == BReplace(f.tasks, t, [t EXCEPT !.pc = "done"])
           queued == {q \in BagToSet(rest) : q.pc = "queued"}
       IN  \/ /\ queued = {}
              /\ fills' = BReplace(fills, f, [f EXCEPT !.tasks = rest])
           \/ \E q \in queued :
                 fills' = BReplace(fills, f,
                             [f EXCEPT !.tasks = BReplace(rest, q, [q EXCEPT !.pc = "get"])])
    /\ UNCHANGED <<net, p_target, w_lock, p_lock, supplyVars, primer, poolVars, cons, dup>>

(***************************************************************************)
(* ResultPool._fill, run by a background thread or inline by the caller of *)
(* ensure_available.                                                       *)
(***************************************************************************)
\* batches = max(3, (self._target - self.size()) // 20)
FillSize(f) ==
    /\ f.pc = "size"
    /\ fills' = BReplace(fills, f, [f EXCEPT !.pc = "submit",
                                             !.left = Batches(p_target, Len(p_items))])
    /\ UNCHANGED <<net, p_target, w_lock, p_lock, supplyVars, primer, poolVars, cons, dup>>

\* one pool.submit(_fetch_batch, self._config, self._type): the future runs
\* at once if the executor has a free worker, else it is queued
FillSubmit(f) ==
    /\ f.pc = "submit"
    /\ LET pc == IF Running(f) < Workers THEN "get" ELSE "queued"
       IN  fills' = BReplace(fills, f,
                      [f EXCEPT !.left = @ - 1,
                                !.pc = IF f.left = 1 THEN "wait" ELSE "submit",
                                !.tasks = BAdd(@, Task(pc, p_config, p_type))])
    /\ UNCHANGED <<net, p_target, w_lock, p_lock, supplyVars, primer, poolVars, cons, dup>>

\* A merge that, inside the lock section of the pool, also resets the used
\* set of the word supply.
MergeDocsTouchesSupply(f, t, docs) ==
    /\ f.pc = "wait"
    /\ t.pc = "done"
    /\ LET r == _add_docs(p_items, p_seen, docs)
       IN  /\ p_items' = r.items
           /\ p_seen' = r.seen
           /\ dup' = dup
           /\ fills' = BReplace(fills, f, [f EXCEPT !.tasks = BDel(@, t)])
    /\ w_used' = {}
    /\ UNCHANGED <<net, p_target, w_lock, p_lock, w_words, w_filling, refills, primer,
                   p_config, p_type, p_filling, cons>>

\* one turn of the as_completed loop, for a future whose result is docs:
\* f.result(), then _add_docs if docs
MergeDocs(f, t, docs) ==
    /\ f.pc = "wait"
    /\ t.pc = "done"
    /\ LET r == _add_docs(p_items, p_seen, docs)
           again == (IdsOf(docs) \ {None, Raise}) \cap IdsOf(p_items)
       IN  /\ p_items' = r.items
           /\ p_seen' = r.seen
           /\ dup' = IF again # {} THEN CHOOSE x \in again : TRUE ELSE dup
           /\ fills' = BReplace(fills, f,
                          [f EXCEPT !.tasks = BDel(@, t),
                                    !.pc = IF r.raised THEN "abort" ELSE "wait"])
    /\ UNCHANGED <<net, p_target, w_lock, p_lock, supplyVars, primer, p_config, p_type, p_filling, cons>>

\* the turn of the loop for whatever the catalogue has answered
FillMerge(f, t) ==
    \E docs \in SearchResults(net, t.cfg, t.typ) : MergeDocs(f, t, docs)

\* a response of limit records whose identifiers no earlier response had
FullPage(cfg, typ) ==
    [i \in 1..Limit |-> Doc(<<ToString(Cardinality(p_seen) + i)>>, cfg, typ)]

\* the turn of the loop when every search returns a full page of new records
FillMergeFull(f, t) == MergeDocs(f, t, FullPage(t.cfg, t.typ))

\* A _fill without its finally clause: an exception leaves it with the flag
\* as it was.
FillAbortEndKeepsFlag(f) ==
    /\ f.pc = "abort"
    /\ \A t \in BagToSet(f.tasks) : t.pc = "done"
    /\ p_filling' = p_filling
    /\ fills' = BDel(fills, f)
    /\ cons' = IF f.owner \in Consumers
               THEN [cons EXCEPT ![f.owner].pc = "ea_raise"]
               ELSE cons
    /\ UNCHANGED <<net, p_target, w_lock, p_lock, supplyVars, primer, p_config, p_type, p_items, p_seen, dup>>

\* an exception has left the as_completed loop: the executor is shut down
\* once the tasks still running and queued have run, then finally:
\* self._filling = False, and the exception leaves _fill
FillAbortEnd(f) ==
    /\ f.pc = "abort"
    /\ \A t \in BagToSet(f.tasks) : t.pc = "done"
    /\ p_filling' = FALSE
    /\ fills' = BDel(fills, f)
    /\ cons' = IF f.owner \in Consumers
               THEN [cons EXCEPT ![f.owner].pc = "ea_raise"]
               ELSE cons
    /\ UNCHANGED <<net, p_target, w_lock, p_lock, supplyVars, primer, p_config, p_type, p_items, p_seen, dup>>

\* A _fill that ends as soon as every task is submitted, without waiting for
\* the futures.
FillFinishEarly(f) ==
    /\ f.pc = "wait"
    /\ p_filling' = FALSE
    /\ fills' = BDel(fills, f)
    /\ cons' = IF f.owner \in Consumers
               THEN [cons EXCEPT ![f.owner].pc = "ea_low"]
               ELSE cons
    /\ UNCHANGED <<net, p_target, w_lock, p_lock, supplyVars, primer, p_config, p_type, p_items, p_seen, dup>>

\* the executor is shut down; finally: self._filling = False
FillFinish(f) ==
    /\ f.pc = "wait"
    /\ f.tasks = EmptyBag
    /\ p_filling' = FALSE
    /\ fills' = BDel(fills, f)
    /\ cons' = IF f.owner \in Consumers
               THEN [cons EXCEPT ![f.owner].pc = "ea_low"]
               ELSE cons
    /\ UNCHANGED <<net, p_target, w_lock, p_lock, supplyVars, primer, p_config, p_type, p_items, p_seen, dup>>

(***************************************************************************)
(* The consumer's calls into the pool.                                     *)
(***************************************************************************)
AtIdle(c) == cons[c].pc = "idle"
Goto(c, pc) == cons' = [cons EXCEPT ![c] = [Idle EXCEPT !.pc = pc]]

\* the caller enters ResultPool.fill_async
CallFillAsync(c) ==
    /\ AtIdle(c)
    /\ Goto(c, "fa_flag")
    /\ UNCHANGED <<net, p_target, w_lock, p_lock, supplyVars, primer, poolVars, fills, dup>>

\* fill_async: if self._filling ... return
FillAsyncFlag(c) ==
    /\ cons[c].pc = "fa_flag"
    /\ Goto(c, IF p_filling THEN "idle" ELSE "fa_size")
    /\ UNCHANGED <<net, p_target, w_lock, p_lock, supplyVars, primer, poolVars, fills, dup>>

\* A fill_async that goes on when the size equals the target.
FillAsyncSizeStrict(c) ==
    /\ cons[c].pc = "fa_size"
    /\ Goto(c, IF Len(p_items) > p_target THEN "idle" ELSE "fa_set")
    /\ UNCHANGED <<net, p_target, w_lock, p_lock, supplyVars, primer, poolVars, fills, dup>>

\* fill_async: ... or self.size() >= self._target: return
FillAsyncSize(c) ==
    /\ cons[c].pc = "fa_size"
    /\ Goto(c, IF Len(p_items) >= p_target THEN "idle" ELSE "fa_set")
    /\ UNCHANGED <<net, p_target, w_lock, p_lock, supplyVars, primer, poolVars, fills, dup>>

\* fill_async: self._filling = True; Thread(target=self._fill).start()
FillAsyncStart(c) ==
    /\ cons[c].pc = "fa_set"
    /\ BagCardinality(fills) < MaxFills
    /\ p_filling' = TRUE
    /\ fills' = BAdd(fills, Fill("bg", "size", 0, EmptyBag))
    /\ Goto(c, "idle")
    /\ UNCHANGED <<net, p_target, w_lock, p_lock, supplyVars, primer, p_config, p_type, p_items, p_seen, dup>>

\* ensure_available(n): if self.size() < n
EnsureAvailable(c, n) ==
    /\ AtIdle(c)
    /\ Goto(c, IF Len(p_items) < n THEN "ea_reset" ELSE "ea_low")
    /\ UNCHANGED <<net, p_target, w_lock, p_lock, supplyVars, primer, poolVars, fills, dup>>

\* An ensure_available that enters its inline fill only once the flag is
\* clear.
EnsureResetWaits(c) ==
    /\ cons[c].pc = "ea_reset"
    /\ ~p_filling
    /\ BagCardinality(fills) < MaxFills
    /\ p_filling' = FALSE
    /\ fills' = BAdd(fills, Fill(c, "size", 0, EmptyBag))
    /\ Goto(c, "ea_fill")
    /\ UNCHANGED <<net, p_target, w_lock, p_lock, supplyVars, primer, p_config, p_type, p_items, p_seen, dup>>

\* ensure_available: self._filling = False; self._fill() is entered
EnsureReset(c) ==
    /\ cons[c].pc = "ea_reset"
    /\ BagCardinality(fills) < MaxFills
    /\ p_filling' = FALSE
    /\ fills' = BAdd(fills, Fill(c, "size", 0, EmptyBag))
    /\ Goto(c, "ea_fill")
    /\ UNCHANGED <<net, p_target, w_lock, p_lock, supplyVars, primer, p_config, p_type, p_items, p_seen, dup>>

\* fill_async: self._filling = True; Thread(target=self._fill).start(),
\* with the cap on running fills at MaxManyFills
FillAsyncStartMany(c) ==
    /\ cons[c].pc = "fa_set"
    /\ BagCardinality(fills) < MaxManyFills
    /\ p_filling' = TRUE
    /\ fills' = BAdd(fills, Fill("bg", "size", 0, EmptyBag))
    /\ Goto(c, "idle")
    /\ UNCHANGED <<net, p_target, w_lock, p_lock, supplyVars, primer, p_config, p_type, p_items, p_seen, dup>>

\* ensure_available: self._filling = False; self._fill() is entered, with
\* the cap on running fills at MaxManyFills
EnsureResetMany(c) ==
    /\ cons[c].pc = "ea_reset"
    /\ BagCardinality(fills) < MaxManyFills
    /\ p_filling' = FALSE
    /\ fills' = BAdd(fills, Fill(c, "size", 0, EmptyBag))
    /\ Goto(c, "ea_fill")
    /\ UNCHANGED <<net, p_target, w_lock, p_lock, supplyVars, primer, p_config, p_type, p_items, p_seen, dup>>

\* An ensure_available that tops up at the low-water mark too.
EnsureLowInclusive(c) ==
    /\ cons[c].pc = "ea_low"
    /\ Goto(c, IF Len(p_items) <= LowWater THEN "fa_flag" ELSE "idle")
    /\ UNCHANGED <<net, p_target, w_lock, p_lock, supplyVars, primer, poolVars, fills, dup>>

\* the exception of the inline fill has left ensure_available and the
\* caller, and the thread goes on with its next request
EnsureRaised(c) ==
    /\ cons[c].pc = "ea_raise"
    /\ Goto(c, "idle")
    /\ UNCHANGED <<net, p_target, w_lock, p_lock, supplyVars, primer, poolVars, fills, dup>>

\* ensure_available: if self.size() < self._low: self.fill_async()
EnsureLow(c) ==
    /\ cons[c].pc = "ea_low"
    /\ Goto(c, IF Len(p_items) < LowWater THEN "fa_flag" ELSE "idle")
    /\ UNCHANGED <<net, p_target, w_lock, p_lock, supplyVars, primer, poolVars, fills, dup>>

\* config setter: if value != self._config: self._config = value
SetConfig(c, value) ==
    /\ AtIdle(c)
    /\ p_config' = value
    /\ Goto(c, IF value # p_config THEN "set_clear" ELSE "set_ret")
    /\ UNCHANGED <<net, p_target, w_lock, p_lock, supplyVars, primer, p_type, p_items, p_seen, p_filling, fills, dup>>

\* A material_type setter that clears whatever the value.
SetFilterAlwaysClears(c, value) ==
    /\ AtIdle(c)
    /\ p_type' = value
    /\ Goto(c, "set_clear")
    /\ UNCHANGED <<net, p_target, w_lock, p_lock, supplyVars, primer, p_config, p_items, p_seen, p_filling, fills, dup>>

\* material_type setter: if value != self._type: self._type = value
SetFilter(c, value) ==
    /\ AtIdle(c)
    /\ p_type' = value
    /\ Goto(c, IF value # p_type THEN "set_clear" ELSE "set_ret")
    /\ UNCHANGED <<net, p_target, w_lock, p_lock, supplyVars, primer, p_config, p_items, p_seen, p_filling, fills, dup>>

\* a setter that found its value equal to the current one returns
SetReturn(c) ==
    /\ cons[c].pc = "set_ret"
    /\ Goto(c, "idle")
    /\ UNCHANGED <<net, p_target, w_lock, p_lock, supplyVars, primer, poolVars, fills, dup>>

\* A clear that empties the record list and leaves _seen as it is.
ClearKeepsSeen ==
    /\ p_items' = <<>>
    /\ p_seen' = p_seen
    /\ dup' = None

\* A clear that empties _seen and leaves the record list as it is.
ClearSeenOnly ==
    /\ p_items' = p_items
    /\ p_seen' = {}
    /\ dup' = dup

\* ResultPool.clear: both containers emptied under the lock
clear ==
    /\ p_items' = <<>>
    /\ p_seen' = {}
    /\ dup' = None

\* the self.clear() that ends a setter
SetClear(c) ==
    /\ cons[c].pc = "set_clear"
    /\ clear
    /\ Goto(c, "idle")
    /\ UNCHANGED <<net, p_target, w_lock, p_lock, supplyVars, primer, p_config, p_type, p_filling, fills>>

\* ResultPool.clear called by the consumer: the lock section
Clear(c) ==
    /\ AtIdle(c)
    /\ clear
    /\ Goto(c, "cleared")
    /\ UNCHANGED <<net, p_target, w_lock, p_lock, supplyVars, primer, p_config, p_type, p_filling, fills>>

\* clear has released the lock and returns
ClearReturn(c) ==
    /\ cons[c].pc = "cleared"
    /\ Goto(c, "idle")
    /\ UNCHANGED <<net, p_target, w_lock, p_lock, supplyVars, primer, poolVars, fills, dup>>

\* docs = pool.take(n): the caller holds n and the list returned
Take(c, n) ==
    /\ AtIdle(c)
    /\ \E r \in take(p_items, n) :
          /\ p_items' = r.items
          /\ cons' = [cons EXCEPT ![c] = [pc |-> "took", n |-> n, got |-> r.picked]]
          /\ dup' = IF dup \in IdsOf(r.items) THEN dup ELSE None
    /\ UNCHANGED <<net, p_target, w_lock, p_lock, supplyVars, primer, p_config, p_type, p_seen, p_filling, fills>>

\* the caller has rendered the records it took
Rendered(c) ==
    /\ cons[c].pc = "took"
    /\ Goto(c, "idle")
    /\ UNCHANGED <<net, p_target, w_lock, p_lock, supplyVars, primer, poolVars, fills, dup>>

(***************************************************************************)
(* The two locks, step by step.  In the actions above a lock section is    *)
(* one step; here `with self._lock:` is two: the thread acquires the lock, *)
(* which it can only do when no thread holds it, and it runs the section   *)
(* and releases the lock.  The locks record the section their holder is    *)
(* in.  A refill thread is counted in refills.fetch while its request is   *)
(* out, in refills.got from the moment it has a non-empty answer until it  *)
(* has appended it, and in refills.fin after that.                         *)
(***************************************************************************)
\* get: with self._lock, entered
GetAcquire ==
    /\ \E f \in BagToSet(fills) : \E t \in BagToSet(f.tasks) : t.pc = "get"
    /\ w_lock = None
    /\ w_lock' = "get"
    /\ UNCHANGED <<net, p_target, p_lock, supplyVars, primer, poolVars, fills, cons, dup>>

\* get: the section, the release, and the test of _maybe_refill
GetSection(f, t) ==
    /\ t.pc = "get"
    /\ w_lock = "get"
    /\ \E o \in GetOutcomes(w_words, w_used) :
          /\ w_words' = o.words
          /\ w_used' = o.used
    /\ SetTask(f, t, [t EXCEPT !.pc = IF ~w_filling /\ Len(w_words') < LOW
                                      THEN "mr_set" ELSE "search"])
    /\ w_lock' = None
    /\ UNCHANGED <<net, p_target, p_lock, w_filling, refills, primer, poolVars, cons, dup>>

\* _fill_bg: self._fetch returns; without words the thread goes to finally
RefillAnswer ==
    /\ refills.fetch > 0
    /\ \E new \in FetchWords(net.words) :
          refills' = IF new # <<>>
                     THEN [refills EXCEPT !.fetch = @ - 1, !.got = @ + 1]
                     ELSE [refills EXCEPT !.fetch = @ - 1, !.fin = @ + 1]
    /\ UNCHANGED <<net, p_target, w_lock, p_lock, w_words, w_used, w_filling,
                   primer, poolVars, fills, cons, dup>>

\* the words of a non-empty answer that leave the buffer within its cap
FittingWords ==
    {new \in FetchWords(net.words) \ {<<>>} :
        Len(AppendUnused(w_words, w_used, new)) <= MaxWords}

\* A _fill_bg that enters with self._lock before it calls self._fetch.
RefillAcquireBeforeFetch ==
    /\ refills.fetch > 0
    /\ w_lock = None
    /\ w_lock' = "refill"
    /\ UNCHANGED <<net, p_target, p_lock, supplyVars, primer, poolVars, fills, cons, dup>>

\* _fill_bg: if new: with self._lock, entered
RefillAcquire ==
    /\ refills.got > 0
    /\ FittingWords # {}
    /\ w_lock = None
    /\ w_lock' = "refill"
    /\ UNCHANGED <<net, p_target, p_lock, supplyVars, primer, poolVars, fills, cons, dup>>

\* _fill_bg: the loop under the lock, and the release
RefillSection ==
    /\ refills.got > 0
    /\ w_lock = "refill"
    /\ \E new \in FittingWords : w_words' = AppendUnused(w_words, w_used, new)
    /\ refills' = [refills EXCEPT !.got = @ - 1, !.fin = @ + 1]
    /\ w_lock' = None
    /\ UNCHANGED <<net, p_target, p_lock, w_used, w_filling, primer, poolVars, fills, cons, dup>>

\* _fill: self.size(), its lock entered
SizeAcquire ==
    /\ \E f \in BagToSet(fills) : f.pc = "size"
    /\ p_lock = None
    /\ p_lock' = "size"
    /\ UNCHANGED <<net, p_target, w_lock, supplyVars, primer, poolVars, fills, cons, dup>>

\* _fill: size() returns len(self._items) and releases; batches is computed
SizeSection(f) ==
    /\ f.pc = "size"
    /\ p_lock = "size"
    /\ fills' = BReplace(fills, f, [f EXCEPT !.pc = "submit",
                                             !.left = Batches(p_target, Len(p_items))])
    /\ p_lock' = None
    /\ UNCHANGED <<net, p_target, w_lock, supplyVars, primer, poolVars, cons, dup>>

\* a turn of the as_completed loop for a future without docs: no _add_docs
MergeNothing(f, t) ==
    /\ \A u \in BagToSet(f.tasks) : u.pc # "adding"
    /\ MergeDocs(f, t, <<>>)

\* _add_docs: with self._lock, entered by the thread of f for the docs of t
AddDocsAcquire(f, t) ==
    /\ f.pc = "wait"
    /\ t.pc = "done"
    /\ \A u \in BagToSet(f.tasks) : u.pc # "adding"
    /\ SearchResults(net, t.cfg, t.typ) # {<<>>}
    /\ p_lock = None
    /\ p_lock' = "add"
    /\ SetTask(f, t, [t EXCEPT !.pc = "adding"])
    /\ UNCHANGED <<net, p_target, w_lock, supplyVars, primer, poolVars, cons, dup>>

\* _add_docs: the loop under the lock, and the release
AddDocsSection(f, t) ==
    /\ f.pc = "wait"
    /\ t.pc = "adding"
    /\ p_lock = "add"
    /\ \E docs \in SearchResults(net, t.cfg, t.typ) \ {<<>>} :
          LET r == _add_docs(p_items, p_seen, docs)
              again == (IdsOf(docs) \ {None, Raise}) \cap IdsOf(p_items)
          IN  /\ p_items' = r.items
              /\ p_seen' = r.seen
              /\ dup' = IF again # {} THEN CHOOSE x \in again : TRUE ELSE dup
              /\ fills' = BReplace(fills, f,
                             [f EXCEPT !.tasks = BDel(@, t),
                                       !.pc = IF r.raised THEN "abort" ELSE "wait"])
    /\ p_lock' = None
    /\ UNCHANGED <<net, p_target, w_lock, supplyVars, primer, p_config, p_type, p_filling, cons>>

\* take(n): with self._lock, entered
TakeAcquire(c, n) ==
    /\ AtIdle(c)
    /\ p_lock = None
    /\ p_lock' = "take"
    /\ cons' = [cons EXCEPT ![c] = [pc |-> "take_in", n |-> n, got |-> <<>>]]
    /\ UNCHANGED <<net, p_target, w_lock, supplyVars, primer, poolVars, fills, dup>>

\* A take that returns the records it draws and leaves them in the list.
TakeSectionKeepsItems(c) ==
    /\ cons[c].pc = "take_in"
    /\ p_lock = "take"
    /\ \E r \in take(p_items, cons[c].n) :
          /\ p_items' = p_items
          /\ cons' = [cons EXCEPT ![c] = [pc |-> "took", n |-> cons[c].n, got |-> r.picked]]
          /\ dup' = dup
    /\ p_lock' = None
    /\ UNCHANGED <<net, p_target, w_lock, supplyVars, primer, p_config, p_type, p_seen,
                   p_filling, fills>>

\* take: the loop under the lock, and the release
TakeSection(c) ==
    /\ cons[c].pc = "take_in"
    /\ p_lock = "take"
    /\ \E r \in take(p_items, cons[c].n) :
          /\ p_items' = r.items
          /\ cons' = [cons EXCEPT ![c] = [pc |-> "took", n |-> cons[c].n, got |-> r.picked]]
          /\ dup' = IF dup \in IdsOf(r.items) THEN dup ELSE None
    /\ p_lock' = None
    /\ UNCHANGED <<net, p_target, w_lock, supplyVars, primer, p_config, p_type, p_seen,
                   p_filling, fills>>

\* clear: with self._lock, entered
ClearAcquire(c) ==
    /\ AtIdle(c)
    /\ p_lock = None
    /\ p_lock' = "clear"
    /\ Goto(c, "clear_in")
    /\ UNCHANGED <<net, p_target, w_lock, supplyVars, primer, poolVars, fills, dup>>

\* clear: both containers emptied, and the release
ClearSection(c) ==
    /\ cons[c].pc = "clear_in"
    /\ p_lock = "clear"
    /\ clear
    /\ Goto(c, "cleared")
    /\ p_lock' = None
    /\ UNCHANGED <<net, p_target, w_lock, supplyVars, primer, p_config, p_type, p_filling, fills>>

\* the self.clear() that ends a setter: with self._lock, entered
SetClearAcquire(c) ==
    /\ cons[c].pc = "set_clear"
    /\ p_lock = None
    /\ p_lock' = "clear"
    /\ Goto(c, "clear_in")
    /\ UNCHANGED <<net, p_target, w_lock, supplyVars, primer, poolVars, fills, dup>>

(***************************************************************************)
(* Next-state relations.                                                   *)
(***************************************************************************)
\* the fill threads and their fetch tasks
FillSteps ==
    \/ \E f \in BagToSet(fills) : FillSize(f)
    \/ \E f \in BagToSet(fills) : FillSubmit(f)
    \/ \E f \in BagToSet(fills) : \E t \in BagToSet(f.tasks) : TaskGet(f, t)
    \/ \E f \in BagToSet(fills) : \E t \in BagToSet(f.tasks) : TaskSearch(f, t)
    \/ \E f \in BagToSet(fills) : \E t \in BagToSet(f.tasks) : FillMerge(f, t)
    \/ \E f \in BagToSet(fills) : FillFinish(f)

\* the refills of the word supply
RefillSteps ==
    \/ \E f \in BagToSet(fills) : \E t \in BagToSet(f.tasks) : TaskRefillStart(f, t)
    \/ RefillFetch
    \/ RefillFinish

PrimeSteps ==
    \/ Prime
    \/ PrimeRefillStart

FillAsyncSteps(c) ==
    \/ CallFillAsync(c)
    \/ FillAsyncFlag(c)
    \/ FillAsyncSize(c)
    \/ FillAsyncStart(c)

\* a session of one consumer thread under one configuration and filter
Next ==
    \/ \E c \in MainThread : FillAsyncSteps(c)
    \/ \E c \in MainThread : \E n \in 0..NumIds + 1 : EnsureAvailable(c, n)
    \/ \E c \in MainThread : EnsureReset(c)
    \/ \E c \in MainThread : EnsureLow(c)
    \/ \E c \in MainThread : Clear(c)
    \/ \E c \in MainThread : ClearReturn(c)
    \/ \E c \in MainThread : \E n \in 0..NumIds + 1 : Take(c, n)
    \/ \E c \in MainThread : Rendered(c)
    \/ FillSteps

Spec == Init /\ [][Next]_vars

\* a session in which the consumer changes the configuration and the filter
NextReconfigure ==
    \/ \E c \in MainThread : FillAsyncSteps(c)
    \/ \E c \in MainThread : \E v \in Configs : SetConfig(c, v)
    \/ \E c \in MainThread : \E v \in Types : SetFilter(c, v)
    \/ \E c \in MainThread : SetClear(c)
    \/ \E c \in MainThread : SetReturn(c)
    \/ \E c \in MainThread : \E n \in 0..NumIds + 1 : Take(c, n)
    \/ \E c \in MainThread : Rendered(c)
    \/ FillSteps

SpecReconfigure == Init /\ [][NextReconfigure]_vars

\* the word supply under load: prime() in its own thread, as in
\* api/index.py, and fills started by fill_async
NextSupply ==
    \/ PrimeSteps
    \/ \E c \in MainThread : FillAsyncSteps(c)
    \/ FillSteps
    \/ RefillSteps

SpecSupply == InitSupply /\ [][NextSupply]_vars

\* the same threads, every refill thread of which goes on running: its fetch
\* ends within its timeout, and then the thread reaches its finally clause
SpecSupplyFair == SpecSupply /\ WF_vars(RefillFetch) /\ WF_vars(RefillFinish)

\* the same threads while the word service fails every request
SpecSupplyDown == InitSupplyDown /\ [][NextSupply]_vars

\* several threads calling fill_async on one pool, and nothing else
NextFillAsync ==
    \/ \E c \in Consumers : FillAsyncSteps(c)
    \/ FillSteps

SpecFillAsync == InitDown /\ [][NextFillAsync]_vars

\* take and nothing else, from every content of the pool
NextTake ==
    \/ \E c \in MainThread : \E n \in 0..MaxTake : Take(c, n)
    \/ \E c \in MainThread : Rendered(c)

SpecTake == InitHolding /\ [][NextTake]_vars

\* take called with whatever integer, negative ones too
NextTakeAny ==
    \/ \E c \in MainThread : \E n \in (0 - MaxNeg)..MaxTake : Take(c, n)
    \/ \E c \in MainThread : Rendered(c)

SpecTakeAny == InitHolding /\ [][NextTakeAny]_vars

\* one caller and fills whose searches all return full pages of new records
NextOvershoot ==
    \/ \E c \in MainThread : FillAsyncSteps(c)
    \/ \E f \in BagToSet(fills) : FillSize(f)
    \/ \E f \in BagToSet(fills) : FillSubmit(f)
    \/ \E f \in BagToSet(fills) : \E t \in BagToSet(f.tasks) : TaskGet(f, t)
    \/ \E f \in BagToSet(fills) : \E t \in BagToSet(f.tasks) : TaskSearch(f, t)
    \/ \E f \in BagToSet(fills) : \E t \in BagToSet(f.tasks) : FillMergeFull(f, t)
    \/ \E f \in BagToSet(fills) : FillFinish(f)

SpecOvershoot == InitOvershoot /\ [][NextOvershoot]_vars

\* the same fills with a caller that also asks for a record through
\* ensure_available, whose inline fill may read the size after a background
\* fill has merged its pages
NextBatches ==
    \/ NextOvershoot
    \/ \E c \in MainThread : EnsureAvailable(c, 1)
    \/ \E c \in MainThread : EnsureReset(c)
    \/ \E c \in MainThread : EnsureLow(c)

SpecBatches == InitOvershoot /\ [][NextBatches]_vars

\* fills of a catalogue whose responses may hold docs that are no records
NextMalformed ==
    \/ \E c \in MainThread : FillAsyncSteps(c)
    \/ \E c \in MainThread : \E n \in 0..NumIds + 1 : EnsureAvailable(c, n)
    \/ \E c \in MainThread : EnsureReset(c)
    \/ \E c \in MainThread : EnsureLow(c)
    \/ \E c \in MainThread : EnsureRaised(c)
    \/ FillSteps
    \/ \E f \in BagToSet(fills) : FillAbortEnd(f)

SpecMalformed == InitMalformed /\ [][NextMalformed]_vars

\* the same fills, every thread of which goes on running: a fetch ends within
\* its timeout, and a fill thread that can take a step takes it in the end
FillProgress == FillSteps \/ \E f \in BagToSet(fills) : FillAbortEnd(f)
SpecMalformedFair == SpecMalformed /\ WF_vars(FillProgress)

\* the lock sections of the pool and of the word supply side by side: fills
\* with their calls of get, refills, and a caller that takes and clears
NextBothLocks ==
    \/ \E c \in MainThread : FillAsyncSteps(c)
    \/ \E c \in MainThread : Clear(c)
    \/ \E c \in MainThread : ClearReturn(c)
    \/ \E c \in MainThread : \E n \in 0..NumIds : Take(c, n)
    \/ \E c \in MainThread : Rendered(c)
    \/ FillSteps
    \/ RefillSteps

SpecBothLocks == InitBothUp /\ [][NextBothLocks]_vars

\* a background fill, the refills of the word supply and a caller that takes
\* and clears, with their lock sections taken step by step
NextLocks ==
    \/ \E c \in MainThread : ClearAcquire(c)
    \/ \E c \in MainThread : ClearSection(c)
    \/ \E c \in MainThread : ClearReturn(c)
    \/ \E c \in MainThread : \E n \in 1..NumIds : TakeAcquire(c, n)
    \/ \E c \in MainThread : TakeSection(c)
    \/ \E c \in MainThread : Rendered(c)
    \/ SizeAcquire
    \/ \E f \in BagToSet(fills) : SizeSection(f)
    \/ \E f \in BagToSet(fills) : FillSubmit(f)
    \/ GetAcquire
    \/ \E f \in BagToSet(fills) : \E t \in BagToSet(f.tasks) : GetSection(f, t)
    \/ \E f \in BagToSet(fills) : \E t \in BagToSet(f.tasks) : TaskRefillStart(f, t)
    \/ \E f \in BagToSet(fills) : \E t \in BagToSet(f.tasks) : TaskSearch(f, t)
    \/ \E f \in BagToSet(fills) : \E t \in BagToSet(f.tasks) : MergeNothing(f, t)
    \/ \E f \in BagToSet(fills) : \E t \in BagToSet(f.tasks) : AddDocsAcquire(f, t)
    \/ \E f \in BagToSet(fills) : \E t \in BagToSet(f.tasks) : AddDocsSection(f, t)
    \/ \E f \in BagToSet(fills) : FillFinish(f)
    \/ RefillAnswer
    \/ RefillAcquire
    \/ RefillSection
    \/ RefillFinish

SpecLocks == InitLocks /\ [][NextLocks]_vars

\* a background fill, a thread that takes, clears and changes the filter,
\* and a second thread that takes, with the lock sections of the pool step
\* by step
NextConserve ==
    \/ \E c \in Consumers : \E n \in 1..NumIds : TakeAcquire(c, n)
    \/ \E c \in Consumers : TakeSection(c)
    \/ \E c \in Consumers : Rendered(c)
    \/ \E c \in MainThread : ClearAcquire(c)
    \/ \E c \in MainThread : ClearSection(c)
    \/ \E c \in MainThread : ClearReturn(c)
    \/ \E c \in MainThread : \E v \in Types : SetFilter(c, v)
    \/ \E c \in MainThread : SetClearAcquire(c)
    \/ \E c \in MainThread : SetReturn(c)
    \/ SizeAcquire
    \/ \E f \in BagToSet(fills) : SizeSection(f)
    \/ \E f \in BagToSet(fills) : FillSubmit(f)
    \/ \E f \in BagToSet(fills) : \E t \in BagToSet(f.tasks) : TaskGet(f, t)
    \/ \E f \in BagToSet(fills) : \E t \in BagToSet(f.tasks) : TaskSearch(f, t)
    \/ \E f \in BagToSet(fills) : \E t \in BagToSet(f.tasks) : MergeNothing(f, t)
    \/ \E f \in BagToSet(fills) : \E t \in BagToSet(f.tasks) : AddDocsAcquire(f, t)
    \/ \E f \in BagToSet(fills) : \E t \in BagToSet(f.tasks) : AddDocsSection(f, t)
    \/ \E f \in BagToSet(fills) : FillFinish(f)

SpecConserve == InitConserve /\ [][NextConserve]_vars

\* one consumer thread that calls fill_async and ensure_available while
\* neither remote service answers, so that the pool stays empty, with room
\* for a third fill
NextManyFills ==
    \/ \E c \in MainThread : CallFillAsync(c)
    \/ \E c \in MainThread : FillAsyncFlag(c)
    \/ \E c \in MainThread : FillAsyncSize(c)
    \/ \E c \in MainThread : FillAsyncStartMany(c)
    \/ \E c \in MainThread : EnsureAvailable(c, 1)
    \/ \E c \in MainThread : EnsureResetMany(c)
    \/ \E c \in MainThread : EnsureLow(c)
    \/ FillSteps

SpecManyFills == InitDown /\ [][NextManyFills]_vars

(***************************************************************************)
(* Properties.                                                             *)
(***************************************************************************)
\* the elements of a sequence, with their multiplicities
SeqBag(sq) == [x \in Range(sq) |-> Cardinality({i \in DOMAIN sq : sq[i] = x})]

\* C1: in every reachable state of the pool the identifier set has exactly
\* as many elements as the record list, and the identifier of every held
\* record is in the identifier set.
C1_SeenMirrorsItems ==
    /\ Cardinality(p_seen) = Len(p_items)
    /\ IdsOf(p_items) \subseteq p_seen

\* C2: when take returns, the identifiers of the records it has removed are
\* no longer in the identifier set (so that a later merge admits them again).
C2_TakeForgetsIds ==
    [][\A c \in Consumers :
          cons[c].pc = "idle" /\ cons'[c].pc = "took"
          => IdsOf(cons'[c].got) \cap p_seen' = {}]_vars

\* C3: the record list never holds two records with the same identifier,
\* whatever the order in which the fetch tasks of one fill or of
\* overlapping fills are merged.
C3_NoTwoRecordsWithOneId ==
    \A i, j \in DOMAIN p_items :
        i # j => _record_id(p_items[i]) # _record_id(p_items[j])

\* a merge was handed a record whose identifier an earlier merge had
\* admitted, and the pool holds exactly one record with that identifier
C3_Witness ==
    /\ dup # None
    /\ Cardinality({i \in DOMAIN p_items : _record_id(p_items[i]) = dup}) = 1

\* C4: take(n) on a pool of s records returns min(n, s) records, which are
\* distinct entries of the list held at the call; the list it leaves is the
\* list held at the call less exactly these entries, so s - min(n, s) long.
C4_TakeReturnsMin ==
    [][\A c \in Consumers :
          cons[c].pc = "idle" /\ cons'[c].pc = "took"
          => LET n == cons'[c].n
                 s == Len(p_items)
                 got == cons'[c].got
             IN  /\ Len(got) = Min(n, s)
                 /\ SeqBag(p_items) = SeqBag(p_items') (+) SeqBag(got)
                 /\ Len(p_items') = s - Min(n, s)]_vars

\* take(5) on a pool of 3 records has returned 3 records and left none
C4_Witness ==
    \E c \in Consumers :
        /\ cons[c].pc = "took"
        /\ cons[c].n = 5
        /\ Len(cons[c].got) = 3
        /\ p_items = <<>>

\* C5: every word get can return in the current state is non-empty, and a
\* fetch task that has called get can always complete the call: it does not
\* wait for a refill, whatever the buffer holds.
C5_GetNonEmptyNoWait ==
    /\ \A o \in GetOutcomes(w_words, w_used) : o.word # <<>>
    /\ \A f \in BagToSet(fills) : \A t \in BagToSet(f.tasks) :
          t.pc = "get" => ENABLED TaskGet(f, t)

\* the buffer is empty and a refill is in flight, and get has returned a
\* word that only _FALLBACK provides
C5_Witness ==
    /\ w_words = <<>>
    /\ w_filling
    /\ NumRefills > 0
    /\ FallbackWords[2] \in w_used

\* C6: at most one background refill of the word supply is in flight.
C6_SingleRefill == NumRefills <= 1

\* C7: a step of fill_async taken while a fill that an earlier fill_async
\* started is in flight starts no fill and changes nothing of the pool.
C7_FillAsyncWhileFillInFlight ==
    [][\A c \in Consumers :
          /\ cons[c].pc \in {"fa_flag", "fa_size", "fa_set"}
          /\ cons'[c] # cons[c]
          /\ BgFills >= 1
          => UNCHANGED <<poolVars, fills>>]_vars

\* C8: whatever the interleaving of the fill_async calls of several threads,
\* at most one background fill is in flight.
C8_SingleBackgroundFill == BgFills <= 1

\* C9: outside a setter, every record the pool holds and every record take
\* has just returned was fetched under the pool's current configuration and
\* material type.
C9_HeldRecordsAreCurrent ==
    (\A c \in Consumers : cons[c].pc # "set_clear")
    => /\ \A i \in DOMAIN p_items :
             p_items[i].cfg = p_config /\ p_items[i].typ = p_type
       /\ \A c \in Consumers : \A i \in DOMAIN cons[c].got :
             cons[c].got[i].cfg = p_config /\ cons[c].got[i].typ = p_type

\* C10: a setter called with a new value while no fill is in flight starts
\* no fill and does not touch the flag, and it returns with the record list
\* and the identifier set empty.
C10_SetterClears ==
    [][\A c \in Consumers :
          /\ fills = EmptyBag
          /\ \/ cons[c].pc = "idle" /\ cons'[c].pc = "set_clear"
             \/ cons[c].pc = "set_clear" /\ cons'[c].pc = "idle"
          => /\ fills' = EmptyBag
             /\ p_filling' = p_filling
             /\ cons'[c].pc = "idle" => p_items' = <<>> /\ p_seen' = {}]_vars

\* material_type = "book" is about to clear a full pool fetched under the
\* previous material type, with no fill in flight
C10_Witness ==
    \E c \in Consumers :
        /\ cons[c].pc = "set_clear"
        /\ fills = EmptyBag
        /\ p_type = "book"
        /\ Len(p_items) = NumIds
        /\ \A i \in DOMAIN p_items : p_items[i].typ = None

\* C11: a setter called with the value the pool has already goes straight to
\* its return, and neither of its steps changes the record list, the
\* identifier set, the flag, the configuration, the material type or the
\* fills in flight.
C11_SetterSameValueNoOp ==
    [][\A c \in Consumers :
          /\ cons[c].pc = "idle" /\ cons'[c].pc \in {"set_clear", "set_ret"}
             /\ p_config' = p_config /\ p_type' = p_type
             => cons'[c].pc = "set_ret" /\ UNCHANGED <<poolVars, fills>>
          /\ cons[c].pc = "set_ret" /\ cons'[c].pc = "idle"
             => UNCHANGED <<poolVars, fills>>]_vars

\* a setter has found its value equal to the current one, on a pool that
\* holds records and has its flag set
C11_Witness ==
    \E c \in Consumers :
        /\ cons[c].pc = "set_ret"
        /\ p_items # <<>>
        /\ p_filling

\* C12: no step leaves a held record whose identifier is not in the
\* identifier set; a step in which the identifier set loses an element
\* empties the set and the record list together; and the step of clear ends
\* with both empty, so that size() is 0 when clear releases the lock.
C12_ClearIsAtomic ==
    [][/\ IdsOf(p_items') \subseteq p_seen'
       /\ ~(p_seen \subseteq p_seen') => p_items' = <<>> /\ p_seen' = {}
       /\ \A c \in Consumers :
             cons[c].pc = "idle" /\ cons'[c].pc = "cleared"
             => p_items' = <<>> /\ p_seen' = {}]_vars

\* clear has just released the lock, the pool is empty, and a fill in flight
\* has a fetch task that is done and not merged yet
C12_Witness ==
    \E c \in Consumers :
        /\ cons[c].pc = "cleared"
        /\ p_items = <<>>
        /\ p_seen = {}
        /\ \E f \in BagToSet(fills) : \E t \in BagToSet(f.tasks) :
              f.pc = "wait" /\ t.pc = "done"

\* C13: while the pool holds at least target records, the steps of fill_async
\* up to and including its size test change nothing of the pool and start no
\* fill, and the size test returns to the caller.
C13_FillAsyncAtTargetNoOp ==
    [][\A c \in Consumers :
          /\ cons[c].pc \in {"fa_flag", "fa_size"}
          /\ cons'[c] # cons[c]
          /\ Len(p_items) >= Target
          => /\ UNCHANGED <<poolVars, fills>>
             /\ cons'[c].pc # "fa_set"
             /\ cons[c].pc = "fa_size" => cons'[c].pc = "idle"]_vars

\* fill_async has found the flag clear and reads the size of a pool that
\* holds target records, with no fill in flight
C13_Witness ==
    \E c \in Consumers :
        /\ cons[c].pc = "fa_size"
        /\ Len(p_items) >= Target
        /\ ~p_filling
        /\ fills = EmptyBag

\* the fills in fs that run inline in the thread of c
InlineFills(fs, c) == Copies(fs, {f \in BagToSet(fs) : f.owner = c})

C15_TopUpBelowLowWater ==
    [][\A c \in Consumers :
          cons[c].pc = "ea_low" /\ cons'[c] # cons[c]
          => /\ cons'[c].pc = (IF Len(p_items) < LowWater THEN "fa_flag" ELSE "idle")
             /\ UNCHANGED <<poolVars, fills>>]_vars

\* ensure_available is past its inline fill, the pool holds low_water
\* records or more but fewer than target, and no fill is in flight
C15_Witness ==
    \E c \in Consumers :
        /\ cons[c].pc = "ea_low"
        /\ Len(p_items) >= LowWater
        /\ Len(p_items) < Target
        /\ ~p_filling
        /\ fills = EmptyBag

\* C16: on a fresh pool with target 150 whose searches all return 50 new
\* records, a fill has 7 tasks to account for (to submit, in flight, or
\* merged at 50 records each), and once the fill has ended the pool holds 350
\* records, more than its target.
C16_FillOvershootsTarget ==
    /\ \A f \in BagToSet(fills) :
          f.pc # "size" => f.left + BagCardinality(f.tasks) + Len(p_items) \div 50 = 7
    /\ fills = EmptyBag /\ p_items # <<>> => Len(p_items) = 350

\* the fill has ended and the pool holds 350 records
C16_Witness ==
    /\ fills = EmptyBag
    /\ ~p_filling
    /\ p_target = 150
    /\ Len(p_items) = 350

\* C17: no fill is ever left by an exception with tasks of it unmerged, and
\* no exception of a fill reaches the caller of ensure_available.
C17_FailedTaskIsSilent ==
    /\ \A f \in BagToSet(fills) : f.pc # "abort"
    /\ \A c \in Consumers : cons[c].pc # "ea_raise"

\* C18: while the word service fails, the step in which a refill or prime
\* gets the answer of its fetch leaves the buffer and the used set as they
\* were, and after every step get has a word to return and every word it can
\* return is non-empty.
C18_FailedRefillAddsNothing ==
    [][/\ refills'.fin > refills.fin \/ (primer = "idle" /\ primer' # "idle")
          => UNCHANGED <<w_words, w_used>>
       /\ GetOutcomes(w_words', w_used') # {}
       /\ \A o \in GetOutcomes(w_words', w_used') : o.word # <<>>]_vars

\* a refill has failed and ended, prime has failed and returned, the buffer
\* is empty, and get has returned every fallback word
C18_Witness ==
    /\ refills = [fetch |-> 0, fin |-> 0]
    /\ primer = "done"
    /\ ~w_filling
    /\ w_words = <<>>
    /\ Range(FALLBACK) \subseteq w_used

\* C19: take never returns a list to a caller that has passed a negative n.
C19_NegativeTakeFailsLoudly ==
    [][\A c \in Consumers :
          cons[c].pc = "idle" /\ cons'[c].pc = "took" => cons'[c].n >= 0]_vars

\* no thread that is inside an operation is stuck: it has a step to take, or
\* it waits for a thread that has one (a queued task for a running task of
\* its fill, a start that the model caps for a fill or a refill to end)
NoThreadStuck ==
    /\ \A f \in BagToSet(fills) :
          /\ f.pc = "size" => ENABLED FillSize(f)
          /\ f.pc = "submit" => ENABLED FillSubmit(f)
          /\ f.pc = "wait" /\ f.tasks = EmptyBag => ENABLED FillFinish(f)
          /\ \A t \in BagToSet(f.tasks) :
                /\ t.pc = "get" => ENABLED TaskGet(f, t)
                /\ t.pc = "mr_set" => ENABLED TaskRefillStart(f, t) \/ NumRefills = MaxRefills
                /\ t.pc = "search" => ENABLED TaskSearch(f, t)
                /\ t.pc = "queued" => Running(f) > 0
                /\ t.pc = "done" /\ f.pc = "wait" => ENABLED FillMerge(f, t)
    /\ refills.fetch > 0 => ENABLED RefillFetch
    /\ refills.fin > 0 => ENABLED RefillFinish
    /\ \A c \in Consumers :
          /\ cons[c].pc \in {"fa_flag", "fa_size"} => ENABLED FillAsyncSteps(c)
          /\ cons[c].pc = "fa_set" => ENABLED FillAsyncStart(c) \/ BagCardinality(fills) = MaxFills
          /\ cons[c].pc = "cleared" => ENABLED ClearReturn(c)
          /\ cons[c].pc = "took" => ENABLED Rendered(c)
          /\ cons[c].pc = "idle" => ENABLED Clear(c) /\ \A n \in 0..NumIds : ENABLED Take(c, n)

C21_FlagClearedWhenFillEnds ==
    /\ [](p_filling => fills # EmptyBag)
    /\ [][BagCardinality(fills') < BagCardinality(fills) => ~p_filling']_vars
    /\ p_filling ~> ~p_filling

\* an inline fill has been left by an exception, its caller has the
\* exception in hand, no fill is in flight and the flag is clear
C21_Witness ==
    /\ \E c \in Consumers : cons[c].pc = "ea_raise"
    /\ fills = EmptyBag
    /\ ~p_filling

\* C22: a merge of a response adds no record without an identifier to the
\* record list and nothing that is no identifier to the identifier set, and
\* it leaves in the record list every record of the response that has an
\* identifier the set did not hold, whatever precedes it in the response.
C22_UnidentifiedRecordDropped ==
    [][\A f \in BagToSet(fills) : \A t \in BagToSet(f.tasks) :
          \A docs \in SearchResults(net, t.cfg, t.typ) :
             MergeDocs(f, t, docs)
             => /\ \A i \in DOMAIN p_items' : _record_id(p_items'[i]) \notin {None, Raise}
                /\ p_seen' \cap {None, Raise} = {}
                /\ \A k \in DOMAIN docs :
                      _record_id(docs[k]) \notin {None, Raise} \cup p_seen
                      => docs[k] \in Range(p_items')]_vars

\* C23: a fill ends, background or inline, only when it has submitted all its
\* tasks and every one of them has run and has had its records merged.
C23_FillIsBarrier ==
    [][\A f \in BagToSet(fills) :
          fills' = BDel(fills, f) => f.left = 0 /\ f.tasks = EmptyBag]_vars

\* C24: the step in which a fill reads the size leaves it with
\* max(3, floor((target - size) / 20)) tasks to submit, 3 at least and none
\* submitted yet; each submit step takes one from that number and adds one
\* task, and the fill goes on to wait for its tasks exactly when the number
\* is 0; no other step changes the number or adds a task.
C24_FillDispatchesBatches ==
    [][\A g \in BagToSet(fills') \ BagToSet(fills) :
          \/ g.pc = "size" /\ g.left = 0 /\ g.tasks = EmptyBag
          \/ \E f \in BagToSet(fills) :
                /\ fills' = BReplace(fills, f, g)
                /\ \/ /\ f.pc = "size"
                      /\ g.pc = "submit"
                      /\ g.tasks = EmptyBag
                      /\ g.left = (IF (p_target - Len(p_items)) \div 20 > 3
                                   THEN (p_target - Len(p_items)) \div 20 ELSE 3)
                      /\ g.left >= 3
                   \/ /\ f.pc = "submit"
                      /\ g.left = f.left - 1
                      /\ BagCardinality(g.tasks) = BagCardinality(f.tasks) + 1
                      /\ g.pc = (IF g.left = 0 THEN "wait" ELSE "submit")
                   \/ /\ f.pc # "size"
                      /\ g.pc = f.pc
                      /\ g.left = f.left
                      /\ BagCardinality(g.tasks) <= BagCardinality(f.tasks)]_vars

\* the inline fill of ensure_available is about to read the size of a pool
\* that a background fill has filled beyond its target
C24_Witness ==
    \E f \in BagToSet(fills) :
        /\ f.owner \in Consumers
        /\ f.pc = "size"
        /\ Len(p_items) > p_target
        /\ ENABLED FillSize(f)

\* the caller of ensure_available that has found too few records can go on
\* at once, whatever the flag and the fills in flight
ResetNeverWaits ==
    \A c \in Consumers :
        cons[c].pc = "ea_reset"
        => ENABLED EnsureReset(c) \/ BagCardinality(fills) = MaxFills

\* C25: ensure_available(n) that finds fewer than n records while a
\* background fill is in flight goes on to its own fill without waiting; its
\* next step clears the flag and enters an inline fill while the background
\* fill is still in flight.
C25_EnsureAvailableOverlapsFill ==
    /\ []ResetNeverWaits
    /\ [][\A c \in Consumers :
             /\ \A n \in 0..MaxTake :
                   EnsureAvailable(c, n) /\ Len(p_items) < n /\ BgFills >= 1
                   => cons'[c].pc = "ea_reset"
             /\ cons[c].pc = "ea_reset" /\ cons'[c] # cons[c] /\ BgFills >= 1
                => /\ ~p_filling'
                   /\ InlineFills(fills', c) = 1
                   /\ BgFills' = BgFills]_vars

\* a background fill and the inline fill of ensure_available both have a
\* fetch task running, and the flag is clear
C25_Witness ==
    \E f, g \in BagToSet(fills) :
        /\ f.owner = "bg"
        /\ g.owner \in Consumers
        /\ Running(f) > 0
        /\ Running(g) > 0
        /\ ~p_filling

\* the fetch tasks that occupy a worker thread, over all fills in flight
RECURSIVE RunningIn(_, _)
RunningIn(B, S) ==
    IF S = {} THEN 0
    ELSE LET f == CHOOSE x \in S : TRUE
         IN  CopiesIn(f, B) * Running(f) + RunningIn(B, S \ {f})
RunningTasks == RunningIn(fills, BagToSet(fills))

\* C26: the fetch tasks of the pool that are running at one time are never
\* more than its worker limit.
C26_RunningTasksWithinWorkers == RunningTasks <= Workers

\* a fetch task waits for the answer of its search, a refill for its words
SearchIsOut == \E f \in BagToSet(fills) : \E t \in BagToSet(f.tasks) : t.pc = "search"
WordsAreOut == refills.fetch > 0

\* whoever holds a lock is a thread inside the section the lock names, with
\* the step that ends the section and releases the lock ready to be taken
HolderLeavesAtOnce ==
    /\ w_lock = "get"
       => ENABLED (\E f \in BagToSet(fills) : \E t \in BagToSet(f.tasks) : GetSection(f, t))
    /\ w_lock = "refill" => ENABLED RefillSection
    /\ p_lock = "size" => ENABLED (\E f \in BagToSet(fills) : SizeSection(f))
    /\ p_lock = "add"
       => ENABLED (\E f \in BagToSet(fills) : \E t \in BagToSet(f.tasks) : AddDocsSection(f, t))
    /\ p_lock = "take" => ENABLED (\E c \in Consumers : TakeSection(c))
    /\ p_lock = "clear" => ENABLED (\E c \in Consumers : ClearSection(c))

\* C27: a lock is only ever held by a thread that is inside the in-memory
\* section and can leave it with its next step, so never by a thread whose
\* request is out; and the step in which a request is answered is taken
\* whether or not the locks are held and leaves both locks as they are.
C27_NoNetworkUnderLock ==
    /\ []HolderLeavesAtOnce
    /\ [](w_lock = "refill" => refills.got > 0)
    /\ [](SearchIsOut
            => ENABLED (\E f \in BagToSet(fills) : \E t \in BagToSet(f.tasks) : TaskSearch(f, t)))
    /\ [](WordsAreOut => ENABLED RefillAnswer)
    /\ [][(refills'.fetch < refills.fetch
           \/ \E f \in BagToSet(fills) : \E t \in BagToSet(f.tasks) : TaskSearch(f, t))
          => UNCHANGED <<w_lock, p_lock>>]_vars

\* take holds the lock of the pool and get the lock of the word supply while
\* a search and a request for words are out
C27_Witness ==
    /\ p_lock = "take"
    /\ w_lock = "get"
    /\ SearchIsOut
    /\ WordsAreOut

\* C28: the flag of the word supply is set only while a refill is running;
\* the step in which a refill ends leaves the flag clear, whatever its fetch
\* has returned; and, every refill thread going on running, whenever the
\* flag is set it is clear again later.
C28_RefillClearsFlag ==
    /\ [](w_filling => NumRefills > 0)
    /\ [][refills'.fin < refills.fin => ~w_filling']_vars
    /\ w_filling ~> ~w_filling

\* a refill whose fetch has added nothing to the empty buffer is in its
\* finally clause, the flag still set, and no other refill is running
C28_Witness ==
    /\ refills = [fetch |-> 0, fin |-> 1]
    /\ w_filling
    /\ w_words = <<>>
    /\ primer = "done"

\* what get may do to the buffer it finds: the word it returns is in a
\* non-empty buffer, which it leaves one word shorter and, but for one
\* occurrence of that word, with the words it had; an empty buffer it leaves
\* empty
GetTakesOneWord ==
    \A o \in GetOutcomes(w_words, w_used) :
        IF w_words # <<>>
        THEN /\ o.word \in Range(w_words)
             /\ SeqBag(w_words) = SeqBag(o.words) (+) SetToBag({o.word})
             /\ Len(o.words) = Len(w_words) - 1
        ELSE o.words = <<>>

\* C29: in every state get takes exactly one occurrence of the word it
\* returns from a non-empty buffer and nothing from an empty one, and the
\* step of a fetch task that calls get leaves the buffer so.
C29_GetRemovesOneWord ==
    /\ []GetTakesOneWord
    /\ [][(\E f \in BagToSet(fills) : \E t \in BagToSet(f.tasks) : TaskGet(f, t))
          => /\ Len(w_words') = (IF w_words = <<>> THEN 0 ELSE Len(w_words) - 1)
             /\ \E o \in GetOutcomes(w_words, w_used) :
                   w_words' = o.words /\ w_used' = o.used]_vars

\* before prime has run, get has returned one of two equal words of the
\* buffer and the other one is still there
C29_Witness ==
    /\ primer = "idle"
    /\ w_words = << <<"o","a","k">> >>
    /\ <<"o","a","k">> \in w_used

\* the fetch tasks of the fills fs that are at position pc
RECURSIVE TasksAtIn(_, _, _)
TasksAtIn(B, S, pc) ==
    IF S = {} THEN 0
    ELSE LET f == CHOOSE x \in S : TRUE
         IN  CopiesIn(f, B) * Copies(f.tasks, {t \in BagToSet(f.tasks) : t.pc = pc})
             + TasksAtIn(B, S \ {f}, pc)
TasksAt(fs, pc) == TasksAtIn(fs, BagToSet(fs), pc)

C31_RefillSkipsUsedWords ==
    [][refills'.fin > refills.fin
          => /\ \E new \in FetchWords(net.words) :
                   w_words' = w_words \o SelectSeq(new, LAMBDA w : w \notin w_used)
             /\ \A i \in (Len(w_words) + 1)..Len(w_words') : w_words'[i] \notin w_used'
             /\ w_used' = w_used]_vars

\* before prime has run, get has returned "oak", and a refill that got its
\* batch after that has left only another word in the buffer
C31_Witness ==
    /\ primer = "idle"
    /\ refills.fin > 0
    /\ <<"o","a","k">> \in w_used
    /\ w_words = << <<"w","o","r","l","d">> >>

\* the fallback words get has not returned since the used set was cleared
FallbackUnused == Range(FALLBACK) \ w_used

\* C32: on an empty buffer get returns a fallback word; while some fallback
\* word is not in the used set it returns one of those and adds it to the
\* set, which keeps what it had; when every fallback word is in the set, the
\* set is cleared and holds the returned word alone afterwards.  The step of
\* a fetch task that calls get on an empty buffer changes the used set so.
C32_FallbackAvoidsUsed ==
    /\ [](w_words = <<>>
            => \A o \in GetOutcomes(w_words, w_used) :
                  /\ o.word \in Range(FALLBACK)
                  /\ o.words = <<>>
                  /\ FallbackUnused # {}
                       => o.word \in FallbackUnused /\ o.used = w_used \cup {o.word}
                  /\ FallbackUnused = {} => o.used = {o.word})
    /\ [][(\E f \in BagToSet(fills) : \E t \in BagToSet(f.tasks) : TaskGet(f, t))
             /\ w_words = <<>>
          => IF FallbackUnused # {}
             THEN /\ w_used \subseteq w_used'
                  /\ w_used' \ w_used \subseteq FallbackUnused
                  /\ Cardinality(w_used') = Cardinality(w_used) + 1
             ELSE /\ w_used' \subseteq Range(FALLBACK)
                  /\ Cardinality(w_used') = 1]_vars

\* the buffer is empty, get has returned "oak" and every fallback word, and
\* a fetch task is about to call get
C32_Witness ==
    /\ w_words = <<>>
    /\ Range(FALLBACK) \subseteq w_used
    /\ <<"o","a","k">> \in w_used
    /\ TasksAt(fills, "get") > 0

\* C33 as claimed: when a fetch task calls get on an empty buffer, the state
\* fixes the word get returns.
C33_FallbackIsDeterministic ==
    w_words = <<>> /\ TasksAt(fills, "get") > 0
       => Cardinality({o.word : o \in GetOutcomes(w_words, w_used)}) <= 1

\* C33: on an empty buffer get may return each of the fallback words that
\* are not in the used set, and each fallback word when all are in it; the
\* state fixes the word only when there is exactly one such word, and the
\* word returned fixes the buffer and the used set get leaves.
C33_FallbackIsAnyUnusedWord ==
    w_words = <<>>
       => LET outs == GetOutcomes(w_words, w_used)
              cand == IF FallbackUnused = {} THEN Range(FALLBACK) ELSE FallbackUnused
          IN  /\ {o.word : o \in outs} = cand
              /\ \A o1, o2 \in outs : o1.word = o2.word => o1 = o2
              /\ (Cardinality({o.word : o \in outs}) = 1) = (Cardinality(cand) = 1)

\* get has returned "oak", the buffer is empty, two fallback words are not
\* in the used set, and a fetch task is about to call get
C33_Witness ==
    /\ w_words = <<>>
    /\ <<"o","a","k">> \in w_used
    /\ Cardinality(FallbackUnused) >= 2
    /\ TasksAt(fills, "get") > 0

\* C36: a step of a fetch task that calls get and does not clear the used
\* set (the buffer has a word, or some fallback word is unused) returns a
\* word that was not in the used set: the set grows by that word.
C36_GetNeverRepeats ==
    [][(\E f \in BagToSet(fills) : \E t \in BagToSet(f.tasks) : TaskGet(f, t))
          /\ ~(w_words = <<>> /\ FallbackUnused = {})
       => w_used' # w_used]_vars

\* C34: a step changes the record list in one of three ways only.  The take
\* section of one caller moves min(n, size) records from the list to that
\* caller, the list and the records returned together being the list as it
\* was, and no other caller's records change; a clear section empties the
\* list and the identifier set; the merge of a fill keeps every record held
\* and appends.  In every other step the list stays as it is, and a caller
\* loses the records it holds only by rendering them.
C34_RecordsConserved ==
    [][\/ /\ p_items' = p_items
          /\ \A c \in Consumers : cons'[c].got \in {cons[c].got, <<>>}
       \/ \E c \in Consumers :
             /\ cons[c].pc = "take_in" /\ cons'[c].pc = "took"
             /\ SeqBag(p_items) = SeqBag(p_items') (+) SeqBag(cons'[c].got)
             /\ Len(p_items) = Len(p_items') + Len(cons'[c].got)
             /\ Len(cons'[c].got) = Min(cons[c].n, Len(p_items))
             /\ \A d \in Consumers \ {c} : cons'[d] = cons[d]
       \/ \E c \in Consumers :
             /\ cons[c].pc = "clear_in" /\ cons'[c].pc = "cleared"
             /\ p_items' = <<>> /\ p_seen' = {}
             /\ \A d \in Consumers \ {c} : cons'[d] = cons[d]
       \/ /\ TasksAt(fills, "adding") = 1 /\ TasksAt(fills', "adding") = 0
          /\ Len(p_items') >= Len(p_items)
          /\ SubSeq(p_items', 1, Len(p_items)) = p_items
          /\ cons' = cons]_vars

\* the second thread holds the two records it took before the first cleared
\* the pool, the first holds a record it took from what the fill merged
\* after the clear, and the pool holds a record still
C34_Witness ==
    /\ cons["c2"].pc = "took" /\ Len(cons["c2"].got) = 2
    /\ cons["c1"].pc = "took" /\ Len(cons["c1"].got) = 1
    /\ p_items # <<>>
    /\ p_seen = IdsOf(p_items) \cup IdsOf(cons["c1"].got)

\* C35: with one consumer thread, at most two fills run at any time.
C35_AtMostTwoFills == BagCardinality(fills) <= 2

====
